---- MODULE Spec2Model ----
(***************************************************************************)
(* The mock authentication hook useAuth (hooks/useAuth.ts): the session    *)
(* state user / loading / error, the AsyncStorage slots 'currentUser' and  *)
(* 'users', and the operations checkExistingSession, signUp, signIn,       *)
(* signOut and updateUser.  Every await of the source is a step boundary:  *)
(* the synchronous code between two awaits is one atomic step, and calls   *)
(* interleave only at their awaits.                                        *)
(*                                                                         *)
(* Strings are sequences of one-character strings, so that trim,           *)
(* toLowerCase, includes and length are computed.  An optional value       *)
(* (T | null) is <<>> for null and <<v>> for v.                            *)
(***************************************************************************)
EXTENDS Integers, Sequences, FiniteSets, TLC

VARIABLES
    user,      \* useState<User | null>: the session user
    loading,   \* useState<boolean>
    error,     \* useState<string | null>
    store,     \* AsyncStorage: the slots currentUser and users (JSON text or absent)
    calls,     \* the calls in flight, each suspended at one of its awaits
    now,       \* the wall clock read by Date.now() (ms)
    hist,      \* the calls completed last (most recent first), with what each saw and left
    ncalls,    \* number of calls invoked so far
    nfaults    \* number of store accesses that failed so far

vars == <<user, loading, error, store, calls, now, hist, ncalls, nfaults>>

(***************************************************************************)
(* Bounds of the model.                                                    *)
(***************************************************************************)
MaxCalls == 3
MaxInFlight == 2
MaxFaults == 1

Slots == 1..MaxInFlight

(***************************************************************************)
(* Program constants.                                                      *)
(***************************************************************************)
RegisterDelay == 1500
LoginDelay == 1000
MinPasswordLength == 8
\* the register screen's own bound on the password
ScreenMinPasswordLength == 8

ErrAllFields == "All fields are required"
ErrPasswordLong == "Password must be at least 8 characters long"
ErrEmailAddress == "Please enter a valid email address"
ErrEmailFormat == "Invalid email format"
ErrPassword == "Password must be at least 8 characters"
ErrExists == "User already exists with this email"
ErrEmailPassword == "Email and password are required"
ErrInvalidLogin == "Invalid email or password"
ErrNoUser == "No user logged in"
\* the message of a rejected AsyncStorage promise (set by the store, not by the hook)
\* the alerts of the register screen
AlertAllFields == "Please fill in all fields"
AlertMismatch == "Passwords do not match"
AlertPasswordLong == "Password must be at least 8 characters long"
AlertTerms == "Please agree to the terms and conditions"
ErrStore == "AsyncStorage failure"

(***************************************************************************)
(* String functions of the JavaScript runtime.                             *)
(***************************************************************************)
WhiteSpace == {" "}

RECURSIVE TrimStart(_)
TrimStart(s) ==
    IF s # <<>> /\ Head(s) \in WhiteSpace THEN TrimStart(Tail(s)) ELSE s

RECURSIVE TrimEnd(_)
TrimEnd(s) ==
    IF s # <<>> /\ s[Len(s)] \in WhiteSpace
    THEN TrimEnd(SubSeq(s, 1, Len(s) - 1))
    ELSE s

Trim(s) == TrimEnd(TrimStart(s))

LowerChar(ch) ==
    CASE ch = "A" -> "a"
      [] ch = "B" -> "b"
      [] ch = "N" -> "n"
      [] ch = "X" -> "x"
      [] OTHER -> ch

ToLowerCase(s) == [i \in 1..Len(s) |-> LowerChar(s[i])]

Includes(s, ch) == \E i \in 1..Len(s) : s[i] = ch

Digit(d) ==
    CASE d = 0 -> "0" [] d = 1 -> "1" [] d = 2 -> "2" [] d = 3 -> "3"
      [] d = 4 -> "4" [] d = 5 -> "5" [] d = 6 -> "6" [] d = 7 -> "7"
      [] d = 8 -> "8" [] OTHER -> "9"

\* Number.prototype.toString of a non-negative integer
RECURSIVE NatToString(_)
NatToString(n) ==
    IF n < 10 THEN <<Digit(n)>>
    ELSE Append(NatToString(n \div 10), Digit(n % 10))

\* new Date().toISOString(): the instant, then the zone designator
ToISOString(t) == Append(NatToString(t), "Z")

(***************************************************************************)
(* JSON.  The text of an object is the sequence of its members in          *)
(* insertion order; the text of an array is the sequence of its items'     *)
(* texts.  User objects get their keys in the order of the literal at      *)
(* lines 48-53, which a spread and a parse both keep.                      *)
(***************************************************************************)
KeyOrder == <<"id", "name", "email", "createdAt">>

StringifyUser(u) ==
    LET ks == SelectSeq(KeyOrder, LAMBDA k : k \in DOMAIN u)
    IN  [i \in 1..Len(ks) |-> [k |-> ks[i], v |-> u[ks[i]]]]

ParseUser(t) ==
    [k \in {t[i].k : i \in 1..Len(t)} |->
        t[CHOOSE i \in 1..Len(t) : t[i].k = k].v]

StringifyUsers(us) == [i \in 1..Len(us) |-> StringifyUser(us[i])]

ParseUsers(t) == [i \in 1..Len(t) |-> ParseUser(t[i])]

\* a text that ends inside its last member, the value missing
Cut(t) == [i \in 1..Len(t) |-> IF i = Len(t) THEN [k |-> t[i].k] ELSE t[i]]

\* JSON.parse returns for a text whose members are whole, and throws a
\* SyntaxError for any other
CanParse(t) == \A i \in 1..Len(t) : "v" \in DOMAIN t[i]

(***************************************************************************)
(* Helpers of the hook.                                                    *)
(***************************************************************************)
\* a slip: the email is trimmed and not lower-cased
NormalizeEmailNoLower(email) == Trim(email)

\* email.trim().toLowerCase()
NormalizeEmail(email) == ToLowerCase(Trim(email))

\* a slip: the email is checked for '@' only
SignUpValidateNoDot(name, email, password) ==
    IF Trim(name) = <<>> \/ Trim(email) = <<>> \/ password = <<>>
    THEN <<ErrAllFields>>
    ELSE IF Len(password) < MinPasswordLength
    THEN <<ErrPasswordLong>>
    ELSE IF ~Includes(email, "@")
    THEN <<ErrEmailAddress>>
    ELSE <<>>

\* the checks of signUp before the registration call: <<>> or <<message>>
SignUpValidate(name, email, password) ==
    IF Trim(name) = <<>> \/ Trim(email) = <<>> \/ password = <<>>
    THEN <<ErrAllFields>>
    ELSE IF Len(password) < MinPasswordLength
    THEN <<ErrPasswordLong>>
    ELSE IF ~Includes(email, "@") \/ ~Includes(email, ".")
    THEN <<ErrEmailAddress>>
    ELSE <<>>

\* the checks of mockApi.register after its delay: <<>> or <<message>>
RegisterValidate(email, password) ==
    IF ~Includes(email, "@")
    THEN <<ErrEmailFormat>>
    ELSE IF Len(password) < MinPasswordLength
    THEN <<ErrPassword>>
    ELSE <<>>

\* the check of signIn before the login call: <<>> or <<message>>
SignInValidate(email, password) ==
    IF Trim(email) = <<>> \/ password = <<>>
    THEN <<ErrEmailPassword>>
    ELSE <<>>

\* existingUsers ? JSON.parse(existingUsers) : []
UsersOf(slot) == IF slot # <<>> THEN ParseUsers(slot[1]) ELSE <<>>

\* a slip: the scan starts at the second record
SomeEmailSkipFirst(us, email) == \E i \in 2..Len(us) : us[i].email = email

\* users.some(u => u.email === email)
SomeEmail(us, email) == \E i \in 1..Len(us) : us[i].email = email

\* a slip: the first record is taken whatever its email
FindEmailFirst(us, email) == IF us # <<>> THEN <<us[1]>> ELSE <<>>

\* users.find(u => u.email === email): <<>> or <<the first match>>
FindEmail(us, email) ==
    IF SomeEmail(us, email)
    THEN <<us[CHOOSE i \in 1..Len(us) :
                /\ us[i].email = email
                /\ \A j \in 1..(i - 1) : us[j].email # email]>>
    ELSE <<>>

\* the User literal of mockApi.register
NewUser(name, email, t) ==
    [id |-> NatToString(t), name |-> name, email |-> email,
     createdAt |-> ToISOString(t)]

\* { ...user, ...userData }
Merge(u, p) ==
    [k \in DOMAIN u \cup DOMAIN p |-> IF k \in DOMAIN p THEN p[k] ELSE u[k]]

\* users.map(u => u.id === user.id ? updatedUser : u)
MapUpdated(us, id, updated) ==
    [i \in 1..Len(us) |-> IF us[i].id = id THEN updated ELSE us[i]]

(***************************************************************************)
(* The arguments the callers pass.                                         *)
(***************************************************************************)
Pw(n) == [i \in 1..n |-> "p"]
PwEmpty == <<>>
PwShort == Pw(MinPasswordLength - 1)
PwOk == Pw(MinPasswordLength)

NameN == <<" ", "n", " ">>
NameBlank == <<" ">>
NameX == <<"x">>

EmailA == <<"a", "@", ".">>
EmailARaw == <<" ", "A", "@", ".">>
EmailB == <<"b", "@", ".">>
EmailUpper == <<"A", "@", ".">>
EmailNoDot == <<"a", "@">>
EmailNoAt == <<"a", ".">>
EmailBlank == <<" ">>

SignUpInputs ==
    { <<NameN, EmailA, PwOk>>, <<NameN, EmailARaw, PwOk>>,
      <<NameN, EmailB, PwOk>>,
      <<NameBlank, EmailA, PwOk>>, <<NameN, EmailBlank, PwOk>>,
      <<NameN, EmailA, PwEmpty>>, <<NameN, EmailA, PwShort>>,
      <<NameN, EmailNoDot, PwOk>>, <<NameN, EmailNoAt, PwOk>> }

SignInInputs ==
    { <<EmailA, PwShort>>, <<EmailARaw, PwOk>>, <<EmailB, PwShort>>,
      <<EmailUpper, PwShort>>, <<EmailBlank, PwOk>>, <<EmailA, PwEmpty>> }

Partials ==
    { [name |-> NameX], [email |-> EmailUpper], [email |-> EmailA] }

\* what the register screen holds when its button is pressed
Form(fullName, email, password, confirmPassword, agreeToTerms) ==
    [fullName |-> fullName, email |-> email, password |-> password,
     confirmPassword |-> confirmPassword, agreeToTerms |-> agreeToTerms]

Forms ==
    {Form(NameN, EmailARaw, PwOk, PwOk, TRUE),
     Form(NameN, EmailARaw, PwOk, PwOk, FALSE),
     Form(<<>>, EmailARaw, PwOk, PwOk, TRUE),
     Form(NameN, EmailARaw, PwOk, <<>>, TRUE),
     Form(NameN, EmailARaw, PwOk, PwShort, TRUE),
     Form(NameN, EmailARaw, PwShort, PwShort, TRUE),
     Form(NameBlank, EmailARaw, PwOk, PwOk, TRUE),
     Form(NameN, EmailNoDot, PwOk, PwOk, TRUE)}

(***************************************************************************)
(* Calls in flight and the record of completed calls.  A call keeps the    *)
(* arguments it was invoked with (name, email, password, partial), the     *)
(* arguments it passed on to mockApi (argName, argEmail), its locals (rec, *)
(* list), and, for the properties, what it saw on entry (pre), whether     *)
(* another call overlapped it (solo), whether a store access of its own    *)
(* failed (faulted) and how many store accesses it made (reads, writes).   *)
(***************************************************************************)
Snapshot == [user |-> user, cur |-> store.currentUser, users |-> store.users]

NoSnapshot == [user |-> <<>>, cur |-> <<>>, users |-> <<>>]

IdleCall ==
    [op |-> "idle", pc |-> "idle", name |-> <<>>, email |-> <<>>,
     password |-> <<>>, partial |-> <<>>, cap |-> <<>>, wake |-> 0,
     argName |-> <<>>, argEmail |-> <<>>, rec |-> <<>>, list |-> <<>>, solo |-> TRUE, faulted |-> FALSE,
     reads |-> 0, writes |-> 0, pre |-> NoSnapshot, form |-> <<>>]

InFlight(c) == calls[c].op # "idle"

NoneInFlight == \A c \in Slots : ~InFlight(c)

\* the lowest free slot takes the next call
FreeSlot(c) ==
    /\ ~InFlight(c)
    /\ \A d \in 1..(c - 1) : InFlight(d)

\* a call invoked now: what it captures on entry
Begin(op, name, email, password, partial) ==
    [IdleCall EXCEPT !.op = op, !.name = name, !.email = email,
                     !.password = password, !.partial = partial,
                     !.cap = user, !.solo = NoneInFlight, !.pre = Snapshot]

\* the calls already in flight when another call is invoked overlap it
Overlapped == [d \in Slots |->
                 IF InFlight(d) THEN [calls[d] EXCEPT !.solo = FALSE]
                 ELSE calls[d]]

Entry(call, outcome, u2, st2, l2, e2) ==
    [op |-> call.op, name |-> call.name, email |-> call.email,
     password |-> call.password, partial |-> call.partial, cap |-> call.cap,
     outcome |-> outcome, solo |-> call.solo, faulted |-> call.faulted,
     reads |-> call.reads, writes |-> call.writes, pre |-> call.pre,
     form |-> call.form,
     post |-> [user |-> u2, cur |-> st2.currentUser, users |-> st2.users,
               loading |-> l2, error |-> e2]]

\* hist keeps the call completed last and the one completed before it
Recorded(e) == IF hist = <<>> THEN <<e>> ELSE <<e, hist[1]>>

\* The clock: a timer fires no earlier than its delay after it was set, and
\* the clock stands wherever the last timer left it, a store access taking
\* less than a millisecond.  Calls invoked one after another therefore read
\* increasing values of Date.now(); calls invoked together may read the same.
Later(a, b) == IF a < b THEN b ELSE a

(***************************************************************************)
(* checkExistingSession, run by the mount effect.                          *)
(***************************************************************************)
\* a slip: the saved record is read and not made the session user
RestoreReadSkips(c) ==
    /\ calls[c].op = "restore" /\ calls[c].pc = "restoreRead"
    /\ LET call == [calls[c] EXCEPT !.reads = @ + 1]
       IN  hist' = Recorded(Entry(call, "ok", user, store, FALSE, error))
    /\ loading' = FALSE
    /\ calls' = [calls EXCEPT ![c] = IdleCall]
    /\ UNCHANGED <<user, error, store, now, ncalls, nfaults>>

\* the read returns: a saved text that parses becomes the session user; a
\* SyntaxError of JSON.parse is caught and logged like a rejected read
RestoreRead(c) ==
    /\ calls[c].op = "restore" /\ calls[c].pc = "restoreRead"
    /\ LET call == [calls[c] EXCEPT !.reads = @ + 1]
           savedUser == store.currentUser
           u2 == IF savedUser # <<>> /\ CanParse(savedUser[1])
                 THEN <<ParseUser(savedUser[1])>>
                 ELSE user
       IN  /\ user' = u2
           /\ loading' = FALSE
           /\ hist' = Recorded(Entry(call, "ok", u2, store, FALSE, error))
    /\ calls' = [calls EXCEPT ![c] = IdleCall]
    /\ UNCHANGED <<error, store, now, ncalls, nfaults>>

RestoreFault(c) ==
    /\ calls[c].op = "restore" /\ calls[c].pc = "restoreRead"
    /\ nfaults < MaxFaults
    /\ nfaults' = nfaults + 1
    /\ LET call == [calls[c] EXCEPT !.reads = @ + 1, !.faulted = TRUE]
       IN  hist' = Recorded(Entry(call, "ok", user, store, FALSE, error))
    /\ loading' = FALSE
    /\ calls' = [calls EXCEPT ![c] = IdleCall]
    /\ UNCHANGED <<user, error, store, now, ncalls>>

(***************************************************************************)
(* signUp and mockApi.register.                                            *)
(***************************************************************************)
\* catch and finally of signUp and of signIn: the message is kept and re-thrown
ThrowLoading(c, call, msg) ==
    /\ error' = <<msg>>
    /\ loading' = FALSE
    /\ hist' = Recorded(Entry(call, msg, user, store, FALSE, <<msg>>))
    /\ calls' = [calls EXCEPT ![c] = IdleCall]
    /\ UNCHANGED <<user, store>>

\* a slip: the error of an earlier call is not cleared on entry
SignUpKeepsError(c, name, email, password) ==
    /\ ncalls < MaxCalls /\ FreeSlot(c)
    /\ ncalls' = ncalls + 1
    /\ LET call == Begin("signUp", name, email, password, <<>>)
           bad == SignUpValidate(name, email, password)
       IN  IF bad # <<>>
           THEN /\ error' = bad
                /\ loading' = FALSE
                /\ hist' = Recorded(Entry(call, bad[1], user, store, FALSE, bad))
                /\ calls' = Overlapped
           ELSE /\ error' = error
                /\ loading' = TRUE
                /\ hist' = hist
                /\ calls' = [Overlapped EXCEPT ![c] =
                       [call EXCEPT !.pc = "regDelay",
                                    !.argName = Trim(name),
                                    !.argEmail = NormalizeEmail(email),
                                    !.wake = now + RegisterDelay]]
    /\ UNCHANGED <<user, store, now, nfaults>>

\* signUp, called directly (form <<>>) or by the register screen with its form
SignUpVia(c, name, email, password, form) ==
    /\ ncalls < MaxCalls /\ FreeSlot(c)
    /\ ncalls' = ncalls + 1
    /\ LET call == [Begin("signUp", name, email, password, <<>>)
                      EXCEPT !.form = form]
           bad == SignUpValidate(name, email, password)
       IN  IF bad # <<>>
           THEN /\ error' = bad
                /\ loading' = FALSE
                /\ hist' = Recorded(Entry(call, bad[1], user, store, FALSE, bad))
                /\ calls' = Overlapped
           ELSE /\ error' = <<>>
                /\ loading' = TRUE
                /\ hist' = hist
                /\ calls' = [Overlapped EXCEPT ![c] =
                       [call EXCEPT !.pc = "regDelay",
                                    !.argName = Trim(name),
                                    !.argEmail = NormalizeEmail(email),
                                    !.wake = now + RegisterDelay]]
    /\ UNCHANGED <<user, store, now, nfaults>>

SignUp(c, name, email, password) == SignUpVia(c, name, email, password, <<>>)

RegisterTimer(c) ==
    /\ calls[c].op = "signUp" /\ calls[c].pc = "regDelay"
    /\ now' = Later(now, calls[c].wake)
    /\ LET bad == RegisterValidate(calls[c].argEmail, calls[c].password)
       IN  IF bad # <<>>
           THEN ThrowLoading(c, calls[c], bad[1])
           ELSE /\ calls' = [calls EXCEPT ![c].pc = "regRead"]
                /\ UNCHANGED <<user, loading, error, store, hist>>
    /\ UNCHANGED <<ncalls, nfaults>>

RegisterRead(c) ==
    /\ calls[c].op = "signUp" /\ calls[c].pc = "regRead"
    /\ LET call == [calls[c] EXCEPT !.reads = @ + 1]
           users == UsersOf(store.users)
           newUser == NewUser(call.argName, call.argEmail, now)
       IN  IF SomeEmail(users, call.argEmail)
           THEN ThrowLoading(c, call, ErrExists)
           ELSE /\ calls' = [calls EXCEPT ![c] =
                       [call EXCEPT !.pc = "regWrite",
                                    !.list = Append(users, newUser),
                                    !.rec = <<newUser>>]]
                /\ UNCHANGED <<user, loading, error, store, hist>>
    /\ UNCHANGED <<now, ncalls, nfaults>>

RegisterWrite(c) ==
    /\ calls[c].op = "signUp" /\ calls[c].pc = "regWrite"
    /\ store' = [store EXCEPT !.users = <<StringifyUsers(calls[c].list)>>]
    /\ calls' = [calls EXCEPT ![c].pc = "curWrite", ![c].writes = @ + 1]
    /\ UNCHANGED <<user, loading, error, now, hist, ncalls, nfaults>>

\* AsyncStorage.setItem('currentUser', ...), setUser, finally
SaveSession(c, op) ==
    /\ calls[c].op = op /\ calls[c].pc = "curWrite"
    /\ LET call == [calls[c] EXCEPT !.writes = @ + 1]
           st2 == [store EXCEPT !.currentUser = <<StringifyUser(call.rec[1])>>]
       IN  /\ store' = st2
           /\ user' = call.rec
           /\ loading' = FALSE
           /\ hist' = Recorded(Entry(call, "ok", call.rec, st2, FALSE, error))
    /\ calls' = [calls EXCEPT ![c] = IdleCall]
    /\ UNCHANGED <<error, now, ncalls, nfaults>>

SignUpSaveSession(c) == SaveSession(c, "signUp")

\* a rejected store access inside signUp or signIn
FaultLoading(c, op, reading) ==
    /\ calls[c].op = op
    /\ calls[c].pc \in (IF reading THEN {"regRead", "loginRead"}
                        ELSE {"regWrite", "curWrite"})
    /\ nfaults < MaxFaults
    /\ nfaults' = nfaults + 1
    /\ LET call == [calls[c] EXCEPT !.faulted = TRUE,
                       !.reads = IF reading THEN @ + 1 ELSE @,
                       !.writes = IF reading THEN @ ELSE @ + 1]
       IN  ThrowLoading(c, call, ErrStore)
    /\ UNCHANGED <<now, ncalls>>

SignUpFault(c) == \E reading \in BOOLEAN : FaultLoading(c, "signUp", reading)

(***************************************************************************)
(* signIn and mockApi.login.                                               *)
(***************************************************************************)
\* a slip: loading is not raised on entry
SignInNoLoading(c, email, password) ==
    /\ ncalls < MaxCalls /\ FreeSlot(c)
    /\ ncalls' = ncalls + 1
    /\ LET call == Begin("signIn", <<>>, email, password, <<>>)
           bad == SignInValidate(email, password)
       IN  IF bad # <<>>
           THEN /\ error' = bad
                /\ loading' = FALSE
                /\ hist' = Recorded(Entry(call, bad[1], user, store, FALSE, bad))
                /\ calls' = Overlapped
           ELSE /\ error' = <<>>
                /\ loading' = loading
                /\ hist' = hist
                /\ calls' = [Overlapped EXCEPT ![c] =
                       [call EXCEPT !.pc = "loginDelay",
                                    !.argEmail = NormalizeEmail(email),
                                    !.wake = now + LoginDelay]]
    /\ UNCHANGED <<user, store, now, nfaults>>

SignIn(c, email, password) ==
    /\ ncalls < MaxCalls /\ FreeSlot(c)
    /\ ncalls' = ncalls + 1
    /\ LET call == Begin("signIn", <<>>, email, password, <<>>)
           bad == SignInValidate(email, password)
       IN  IF bad # <<>>
           THEN /\ error' = bad
                /\ loading' = FALSE
                /\ hist' = Recorded(Entry(call, bad[1], user, store, FALSE, bad))
                /\ calls' = Overlapped
           ELSE /\ error' = <<>>
                /\ loading' = TRUE
                /\ hist' = hist
                /\ calls' = [Overlapped EXCEPT ![c] =
                       [call EXCEPT !.pc = "loginDelay",
                                    !.argEmail = NormalizeEmail(email),
                                    !.wake = now + LoginDelay]]
    /\ UNCHANGED <<user, store, now, nfaults>>

LoginTimer(c) ==
    /\ calls[c].op = "signIn" /\ calls[c].pc = "loginDelay"
    /\ now' = Later(now, calls[c].wake)
    /\ calls' = [calls EXCEPT ![c].pc = "loginRead"]
    /\ UNCHANGED <<user, loading, error, store, hist, ncalls, nfaults>>

\* a slip: for an unknown email the promise of login is never settled
LoginReadHangs(c) ==
    /\ calls[c].op = "signIn" /\ calls[c].pc = "loginRead"
    /\ LET call == [calls[c] EXCEPT !.reads = @ + 1]
           users == UsersOf(store.users)
           found == FindEmail(users, call.argEmail)
       IN  IF found = <<>>
           THEN /\ calls' = [calls EXCEPT ![c] = [call EXCEPT !.pc = "hung"]]
                /\ UNCHANGED <<user, loading, error, store, hist>>
           ELSE /\ calls' = [calls EXCEPT ![c] =
                       [call EXCEPT !.pc = "curWrite", !.rec = found]]
                /\ UNCHANGED <<user, loading, error, store, hist>>
    /\ UNCHANGED <<now, ncalls, nfaults>>

LoginRead(c) ==
    /\ calls[c].op = "signIn" /\ calls[c].pc = "loginRead"
    /\ LET call == [calls[c] EXCEPT !.reads = @ + 1]
           users == UsersOf(store.users)
           found == FindEmail(users, call.argEmail)
       IN  IF found = <<>>
           THEN ThrowLoading(c, call, ErrInvalidLogin)
           ELSE /\ calls' = [calls EXCEPT ![c] =
                       [call EXCEPT !.pc = "curWrite", !.rec = found]]
                /\ UNCHANGED <<user, loading, error, store, hist>>
    /\ UNCHANGED <<now, ncalls, nfaults>>

SignInSaveSession(c) == SaveSession(c, "signIn")

SignInFault(c) == \E reading \in BOOLEAN : FaultLoading(c, "signIn", reading)

(***************************************************************************)
(* signOut.                                                                *)
(***************************************************************************)
SignOut(c) ==
    /\ ncalls < MaxCalls /\ FreeSlot(c)
    /\ ncalls' = ncalls + 1
    /\ loading' = TRUE
    /\ calls' = [Overlapped EXCEPT ![c] =
           [Begin("signOut", <<>>, <<>>, <<>>, <<>>) EXCEPT !.pc = "remove"]]
    /\ UNCHANGED <<user, error, store, now, hist, nfaults>>

\* a slip: the slot is removed and the session user is kept
SignOutRemoveKeepsUser(c) ==
    /\ calls[c].op = "signOut" /\ calls[c].pc = "remove"
    /\ LET call == [calls[c] EXCEPT !.writes = @ + 1]
           st2 == [store EXCEPT !.currentUser = <<>>]
       IN  /\ store' = st2
           /\ hist' = Recorded(Entry(call, "ok", user, st2, FALSE, error))
    /\ loading' = FALSE
    /\ calls' = [calls EXCEPT ![c] = IdleCall]
    /\ UNCHANGED <<user, error, now, ncalls, nfaults>>

SignOutRemove(c) ==
    /\ calls[c].op = "signOut" /\ calls[c].pc = "remove"
    /\ LET call == [calls[c] EXCEPT !.writes = @ + 1]
           st2 == [store EXCEPT !.currentUser = <<>>]
       IN  /\ store' = st2
           /\ user' = <<>>
           /\ loading' = FALSE
           /\ hist' = Recorded(Entry(call, "ok", <<>>, st2, FALSE, error))
    /\ calls' = [calls EXCEPT ![c] = IdleCall]
    /\ UNCHANGED <<error, now, ncalls, nfaults>>

\* catch of signOut: the failure is logged, nothing is thrown
SignOutFault(c) ==
    /\ calls[c].op = "signOut" /\ calls[c].pc = "remove"
    /\ nfaults < MaxFaults
    /\ nfaults' = nfaults + 1
    /\ LET call == [calls[c] EXCEPT !.writes = @ + 1, !.faulted = TRUE]
       IN  hist' = Recorded(Entry(call, "ok", user, store, FALSE, error))
    /\ loading' = FALSE
    /\ calls' = [calls EXCEPT ![c] = IdleCall]
    /\ UNCHANGED <<user, error, store, now, ncalls>>

(***************************************************************************)
(* updateUser.  The closure reads the user of the render it was made in:   *)
(* the call keeps it as cap.                                               *)
(***************************************************************************)
\* catch of updateUser: the message is kept and re-thrown; loading is not touched
ThrowUpdate(c, call, msg) ==
    /\ error' = <<msg>>
    /\ hist' = Recorded(Entry(call, msg, user, store, loading, <<msg>>))
    /\ calls' = [calls EXCEPT ![c] = IdleCall]
    /\ UNCHANGED <<user, loading, store>>

\* a slip: no check of the session; the spread of null is the empty object
\* and no record has the identifier of no user
UpdateUserNoGuard(c, userData) ==
    /\ ncalls < MaxCalls /\ FreeSlot(c)
    /\ ncalls' = ncalls + 1
    /\ LET call == Begin("updateUser", <<>>, <<>>, <<>>, <<userData>>)
           merged == IF user = <<>> THEN userData ELSE Merge(user[1], userData)
           seen == IF user = <<>> THEN <<[id |-> <<>>]>> ELSE user
       IN  calls' = [Overlapped EXCEPT ![c] =
               [call EXCEPT !.pc = "updCur", !.cap = seen, !.rec = <<merged>>]]
    /\ UNCHANGED <<user, loading, error, store, now, hist, nfaults>>

UpdateUser(c, userData) ==
    /\ ncalls < MaxCalls /\ FreeSlot(c)
    /\ ncalls' = ncalls + 1
    /\ LET call == Begin("updateUser", <<>>, <<>>, <<>>, <<userData>>)
       IN  IF user = <<>>
           THEN /\ error' = <<ErrNoUser>>
                /\ hist' = Recorded(Entry(call, ErrNoUser, user, store,
                                          loading, <<ErrNoUser>>))
                /\ calls' = Overlapped
           ELSE /\ error' = error
                /\ hist' = hist
                /\ calls' = [Overlapped EXCEPT ![c] =
                       [call EXCEPT !.pc = "updCur",
                                    !.rec = <<Merge(user[1], userData)>>]]
    /\ UNCHANGED <<user, loading, store, now, nfaults>>

UpdateUserSaveSession(c) ==
    /\ calls[c].op = "updateUser" /\ calls[c].pc = "updCur"
    /\ store' = [store EXCEPT
           !.currentUser = <<StringifyUser(calls[c].rec[1])>>]
    /\ calls' = [calls EXCEPT ![c].pc = "updRead", ![c].writes = @ + 1]
    /\ UNCHANGED <<user, loading, error, now, hist, ncalls, nfaults>>

UpdateUserRead(c) ==
    /\ calls[c].op = "updateUser" /\ calls[c].pc = "updRead"
    /\ LET call == [calls[c] EXCEPT !.reads = @ + 1]
           existingUsers == store.users
       IN  IF existingUsers # <<>>
           THEN /\ calls' = [calls EXCEPT ![c] =
                       [call EXCEPT !.pc = "updWrite",
                                    !.list = MapUpdated(ParseUsers(existingUsers[1]),
                                                        call.cap[1].id, call.rec[1])]]
                /\ UNCHANGED <<user, hist>>
           ELSE /\ user' = call.rec
                /\ hist' = Recorded(Entry(call, "ok", call.rec, store,
                                          loading, error))
                /\ calls' = [calls EXCEPT ![c] = IdleCall]
    /\ UNCHANGED <<loading, error, store, now, ncalls, nfaults>>

UpdateUserWrite(c) ==
    /\ calls[c].op = "updateUser" /\ calls[c].pc = "updWrite"
    /\ LET call == [calls[c] EXCEPT !.writes = @ + 1]
           st2 == [store EXCEPT !.users = <<StringifyUsers(call.list)>>]
       IN  /\ store' = st2
           /\ user' = call.rec
           /\ hist' = Recorded(Entry(call, "ok", call.rec, st2, loading, error))
    /\ calls' = [calls EXCEPT ![c] = IdleCall]
    /\ UNCHANGED <<loading, error, now, ncalls, nfaults>>

\* a slip: the session user is set before the store has answered
UpdateUserFaultOptimistic(c) ==
    /\ calls[c].op = "updateUser"
    /\ calls[c].pc \in {"updCur", "updRead", "updWrite"}
    /\ nfaults < MaxFaults
    /\ nfaults' = nfaults + 1
    /\ LET reading == calls[c].pc = "updRead"
           call == [calls[c] EXCEPT !.faulted = TRUE,
                       !.reads = IF reading THEN @ + 1 ELSE @,
                       !.writes = IF reading THEN @ ELSE @ + 1]
       IN  /\ user' = call.rec
           /\ error' = <<ErrStore>>
           /\ hist' = Recorded(Entry(call, ErrStore, call.rec, store, loading,
                                     <<ErrStore>>))
    /\ calls' = [calls EXCEPT ![c] = IdleCall]
    /\ UNCHANGED <<loading, store, now, ncalls>>

UpdateUserFault(c) ==
    /\ calls[c].op = "updateUser"
    /\ calls[c].pc \in {"updCur", "updRead", "updWrite"}
    /\ nfaults < MaxFaults
    /\ nfaults' = nfaults + 1
    /\ LET reading == calls[c].pc = "updRead"
           call == [calls[c] EXCEPT !.faulted = TRUE,
                       !.reads = IF reading THEN @ + 1 ELSE @,
                       !.writes = IF reading THEN @ ELSE @ + 1]
       IN  ThrowUpdate(c, call, ErrStore)
    /\ UNCHANGED <<now, ncalls>>

Init ==
    /\ user = <<>>
    /\ loading = TRUE
    /\ error = <<>>
    /\ store = [currentUser |-> <<>>, users |-> <<>>]
    /\ calls = [c \in Slots |->
                  IF c = 1
                  THEN [IdleCall EXCEPT !.op = "restore", !.pc = "restoreRead"]
                  ELSE IdleCall]
    /\ now = 0
    /\ hist = <<>>
    /\ ncalls = 0
    /\ nfaults = 0

Next ==
    \/ \E c \in Slots : RestoreRead(c)
    \/ \E c \in Slots : RestoreFault(c)
    \/ \E c \in Slots : \E i \in SignUpInputs : SignUp(c, i[1], i[2], i[3])
    \/ \E c \in Slots : RegisterTimer(c)
    \/ \E c \in Slots : RegisterRead(c)
    \/ \E c \in Slots : RegisterWrite(c)
    \/ \E c \in Slots : SignUpSaveSession(c)
    \/ \E c \in Slots : SignUpFault(c)
    \/ \E c \in Slots : \E i \in SignInInputs : SignIn(c, i[1], i[2])
    \/ \E c \in Slots : LoginTimer(c)
    \/ \E c \in Slots : LoginRead(c)
    \/ \E c \in Slots : SignInSaveSession(c)
    \/ \E c \in Slots : SignInFault(c)
    \/ \E c \in Slots : SignOut(c)
    \/ \E c \in Slots : SignOutRemove(c)
    \/ \E c \in Slots : SignOutFault(c)
    \/ \E c \in Slots : \E p \in Partials : UpdateUser(c, p)
    \/ \E c \in Slots : UpdateUserSaveSession(c)
    \/ \E c \in Slots : UpdateUserRead(c)
    \/ \E c \in Slots : UpdateUserWrite(c)
    \/ \E c \in Slots : UpdateUserFault(c)

Spec == Init /\ [][Next]_vars

(***************************************************************************)
(* The same steps with every call invoked only when no call is in flight:  *)
(* the behaviours in which no two calls overlap.                           *)
(***************************************************************************)
SoloNext ==
    \/ \E c \in Slots : RestoreRead(c)
    \/ \E c \in Slots : RestoreFault(c)
    \/ NoneInFlight /\ \E c \in Slots : \E i \in SignUpInputs : SignUp(c, i[1], i[2], i[3])
    \/ \E c \in Slots : RegisterTimer(c)
    \/ \E c \in Slots : RegisterRead(c)
    \/ \E c \in Slots : RegisterWrite(c)
    \/ \E c \in Slots : SignUpSaveSession(c)
    \/ \E c \in Slots : SignUpFault(c)
    \/ NoneInFlight /\ \E c \in Slots : \E i \in SignInInputs : SignIn(c, i[1], i[2])
    \/ \E c \in Slots : LoginTimer(c)
    \/ \E c \in Slots : LoginRead(c)
    \/ \E c \in Slots : SignInSaveSession(c)
    \/ \E c \in Slots : SignInFault(c)
    \/ NoneInFlight /\ \E c \in Slots : SignOut(c)
    \/ \E c \in Slots : SignOutRemove(c)
    \/ \E c \in Slots : SignOutFault(c)
    \/ NoneInFlight /\ \E c \in Slots : \E p \in Partials : UpdateUser(c, p)
    \/ \E c \in Slots : UpdateUserSaveSession(c)
    \/ \E c \in Slots : UpdateUserRead(c)
    \/ \E c \in Slots : UpdateUserWrite(c)
    \/ \E c \in Slots : UpdateUserFault(c)

SoloSpec == Init /\ [][SoloNext]_vars

(***************************************************************************)
(* The register screen: handleRegister, run when its button is pressed.    *)
(* A press counts as a call; the alert of a refused form is the outcome of *)
(* its record in hist.                                                     *)
(***************************************************************************)
\* a slip: the agreement to the terms is not checked
HandleRegisterValidateNoTerms(f) ==
    IF f.fullName = <<>> \/ f.email = <<>> \/ f.password = <<>>
       \/ f.confirmPassword = <<>>
    THEN <<AlertAllFields>>
    ELSE IF f.password # f.confirmPassword
    THEN <<AlertMismatch>>
    ELSE IF Len(f.password) < ScreenMinPasswordLength
    THEN <<AlertPasswordLong>>
    ELSE <<>>

\* the checks of handleRegister: <<>> or <<alert>>
HandleRegisterValidate(f) ==
    IF f.fullName = <<>> \/ f.email = <<>> \/ f.password = <<>>
       \/ f.confirmPassword = <<>>
    THEN <<AlertAllFields>>
    ELSE IF f.password # f.confirmPassword
    THEN <<AlertMismatch>>
    ELSE IF Len(f.password) < ScreenMinPasswordLength
    THEN <<AlertPasswordLong>>
    ELSE IF ~f.agreeToTerms
    THEN <<AlertTerms>>
    ELSE <<>>

HandleRegister(c, f) ==
    LET alert == HandleRegisterValidate(f)
    IN  IF alert # <<>>
        THEN /\ ncalls < MaxCalls /\ FreeSlot(c)
             /\ ncalls' = ncalls + 1
             /\ LET press == [Begin("handleRegister", f.fullName, f.email,
                                    f.password, <<>>) EXCEPT !.form = <<f>>]
                IN  hist' = Recorded(Entry(press, alert[1], user, store,
                                           loading, error))
             /\ UNCHANGED <<user, loading, error, store, calls, now, nfaults>>
        ELSE SignUpVia(c, Trim(f.fullName), Trim(f.email), f.password, <<f>>)

ViewNext ==
    \/ SoloNext
    \/ NoneInFlight /\ \E c \in Slots : \E f \in Forms : HandleRegister(c, f)

ViewSpec == Init /\ [][ViewNext]_vars

(***************************************************************************)
(* Scheduling.  The event loop runs every callback that is ready: a timer  *)
(* that was set fires, and a store access that was made returns (with a    *)
(* value or a rejection), after which the continuation of the call runs.   *)
(* A call in flight therefore takes its next step eventually.  Nothing     *)
(* obliges the caller to invoke anything.                                  *)
(***************************************************************************)
Step(c) ==
    \/ RestoreRead(c) \/ RestoreFault(c)
    \/ RegisterTimer(c) \/ RegisterRead(c) \/ RegisterWrite(c)
    \/ SignUpSaveSession(c) \/ SignUpFault(c)
    \/ LoginTimer(c) \/ LoginRead(c) \/ SignInSaveSession(c) \/ SignInFault(c)
    \/ SignOutRemove(c) \/ SignOutFault(c)
    \/ UpdateUserSaveSession(c) \/ UpdateUserRead(c) \/ UpdateUserWrite(c)
    \/ UpdateUserFault(c)

Fairness == \A c \in Slots : WF_vars(Step(c))

\* Calls invoked at any time, overlapping or not, the caller passing one
\* accepted and one refused value of each kind of argument.
SignUpBrief == { <<NameN, EmailA, PwOk>>, <<NameN, EmailA, PwShort>> }

SignInBrief == { <<EmailA, PwShort>>, <<EmailB, PwShort>>, <<EmailA, PwEmpty>> }

PartialsBrief == { [name |-> NameX] }

FairNext ==
    \/ \E c \in Slots : Step(c)
    \/ \E c \in Slots : \E i \in SignUpBrief : SignUp(c, i[1], i[2], i[3])
    \/ \E c \in Slots : \E i \in SignInBrief : SignIn(c, i[1], i[2])
    \/ \E c \in Slots : SignOut(c)
    \/ \E c \in Slots : \E p \in PartialsBrief : UpdateUser(c, p)

FairSpec == Init /\ [][FairNext]_vars /\ Fairness

(***************************************************************************)
(* The hook mounted over the store an earlier run of the app left: nothing *)
(* (first run), a signed-in user, or a currentUser text that is not JSON   *)
(* (AsyncStorage is shared by the whole app and keeps what was written     *)
(* last, whole or not).  The earlier run registered its user when its      *)
(* clock read 0; this run's clock starts there.                            *)
(***************************************************************************)
Earlier == NewUser(<<"n">>, EmailA, 0)

MountStores ==
    {[currentUser |-> <<>>, users |-> <<>>],
     [currentUser |-> <<StringifyUser(Earlier)>>,
      users |-> <<StringifyUsers(<<Earlier>>)>>],
     [currentUser |-> <<Cut(StringifyUser(Earlier))>>,
      users |-> <<StringifyUsers(<<Earlier>>)>>]}

MountInit ==
    /\ user = <<>>
    /\ loading = TRUE
    /\ error = <<>>
    /\ store \in MountStores
    /\ calls = [c \in Slots |->
                  IF c = 1
                  THEN [IdleCall EXCEPT !.op = "restore", !.pc = "restoreRead",
                           !.pre = [user |-> <<>>, cur |-> store.currentUser,
                                    users |-> store.users]]
                  ELSE IdleCall]
    /\ now = 0
    /\ hist = <<>>
    /\ ncalls = 0
    /\ nfaults = 0

MountSpec == MountInit /\ [][SoloNext]_vars

(***************************************************************************)
(* Properties.  Each speaks of a completed call through its record in      *)
(* hist: the arguments, what the call saw on entry (pre), what it left on  *)
(* completion (post), and what it raised (outcome: "ok" or the message).   *)
(***************************************************************************)
Completed == hist # <<>>
Last == hist[1]

\* the users list a snapshot's users slot decodes to (an absent slot is no record)
Persisted(snap) == IF snap.users = <<>> THEN <<>> ELSE ParseUsers(snap.users[1])

Carries(us, email) == \E i \in 1..Len(us) : us[i].email = email

CountEmail(us, email) == Cardinality({i \in 1..Len(us) : us[i].email = email})

\* trimmed and lower-cased
Normal(email) == ToLowerCase(Trim(email))

\* a call that neither overlapped another call nor had a store access fail
Alone(h) == h.solo /\ ~h.faulted

SignUpArgsValid(h) ==
    /\ Trim(h.name) # <<>>
    /\ Includes(h.email, "@") /\ Includes(h.email, ".")
    /\ Len(h.password) >= MinPasswordLength

\* C1: a signUp with a non-empty trimmed name, an email containing '@' and
\* '.', a password of at least 8 characters and a normalized email no
\* persisted record carries, run with no overlapping call and no store
\* failure, returns without raising; the session user is then the new record
\* (trimmed name, normalized email), appended to the persisted list, which
\* holds exactly one record with that email.
C1_SignUpCreatesSession ==
    (/\ Completed
     /\ Last.op = "signUp" /\ Alone(Last) /\ SignUpArgsValid(Last)
     /\ ~Carries(Persisted(Last.pre), Normal(Last.email)))
    => /\ Last.outcome = "ok"
       /\ Last.post.user # <<>>
       /\ Last.post.user[1].name = Trim(Last.name)
       /\ Last.post.user[1].email = Normal(Last.email)
       /\ LET before == Persisted(Last.pre)
              after == Persisted(Last.post)
          IN  /\ after = Append(before, Last.post.user[1])
              /\ CountEmail(after, Normal(Last.email)) = 1

\* C1's case: a signUp that succeeded with an email given in upper case and
\* with surrounding blanks, into a list that already held a record
C1_Witness ==
    /\ Completed
    /\ Last.op = "signUp" /\ Alone(Last) /\ SignUpArgsValid(Last)
    /\ Last.email = EmailARaw /\ Last.name = NameN
    /\ ~Carries(Persisted(Last.pre), Normal(Last.email))
    /\ Len(Persisted(Last.pre)) >= 1
    /\ Last.outcome = "ok"

\* two signUp calls in sequence, the second invoked in the state the first
\* left, the first succeeding, with emails that normalize to the same value
TwoSignUps ==
    /\ Len(hist) = 2
    /\ hist[1].op = "signUp" /\ hist[2].op = "signUp"
    /\ hist[1].solo /\ hist[2].solo
    /\ hist[2].outcome = "ok"
    /\ hist[1].pre.user = hist[2].post.user
    /\ hist[1].pre.cur = hist[2].post.cur
    /\ hist[1].pre.users = hist[2].post.users
    /\ Normal(hist[1].email) = Normal(hist[2].email)

\* C2, as stated: the second of two such signUp calls fails with the
\* conflict error and the list holds exactly one record more than before
\* the first call.
C2_SecondSignUpConflicts ==
    TwoSignUps
    => /\ hist[1].outcome = ErrExists
       /\ Len(Persisted(hist[1].post)) = Len(Persisted(hist[2].pre)) + 1

\* C2, amended: the same, for a second call whose name and password pass
\* signUp's validation and whose read of the users list does not fail.
C2_SecondValidSignUpConflicts ==
    (TwoSignUps /\ SignUpArgsValid(hist[1]) /\ ~hist[1].faulted)
    => /\ hist[1].outcome = ErrExists
       /\ Len(Persisted(hist[1].post)) = Len(Persisted(hist[2].pre)) + 1

\* C2's case: the second call gave the email in another spelling and was
\* refused as a duplicate
C2_Witness ==
    /\ TwoSignUps /\ SignUpArgsValid(hist[1]) /\ ~hist[1].faulted
    /\ hist[1].email # hist[2].email
    /\ hist[1].outcome = ErrExists

\* C3: in every state no two records of the persisted users list carry the
\* same email.
C3_UniqueEmails ==
    LET us == UsersOf(store.users)
    IN  \A i, j \in 1..Len(us) : i # j => us[i].email # us[j].email

\* a signIn, overlapping no other call, whose normalized email no persisted
\* record carries
UnknownSignIn ==
    /\ Completed
    /\ Last.op = "signIn" /\ Last.solo
    /\ ~Carries(Persisted(Last.pre), Normal(Last.email))

SignInLeavesAll ==
    /\ Last.post.user = Last.pre.user
    /\ Last.post.cur = Last.pre.cur
    /\ Last.post.users = Last.pre.users

\* C4, as stated: a signIn whose normalized email matches no persisted
\* record fails with 'Invalid email or password' and leaves the session
\* user, the currentUser slot and the users list as they were.
C4_UnknownSignInFails ==
    UnknownSignIn
    => /\ Last.outcome = ErrInvalidLogin
       /\ SignInLeavesAll

\* C4, amended: the same, for a signIn with a non-empty password and an
\* email that is not empty after trimming, whose read of the users list
\* does not fail.
C4_UnknownValidSignInFails ==
    (/\ UnknownSignIn
     /\ Trim(Last.email) # <<>> /\ Last.password # <<>>
     /\ ~Last.faulted)
    => /\ Last.outcome = ErrInvalidLogin
       /\ SignInLeavesAll

\* C4's case: an unknown email refused while a session was active and the
\* list held records
C4_Witness ==
    /\ UnknownSignIn
    /\ Trim(Last.email) # <<>> /\ Last.password # <<>> /\ ~Last.faulted
    /\ Last.pre.user # <<>> /\ Len(Persisted(Last.pre)) >= 1
    /\ Last.outcome = ErrInvalidLogin

\* C5: a signIn with an email that a persisted record carries and a
\* non-empty password, run with no overlapping call and no store failure,
\* succeeds, and the session user and the currentUser slot then hold the
\* stored record with that email.
C5_KnownEmailSignsIn ==
    (/\ Completed
     /\ Last.op = "signIn" /\ Alone(Last)
     /\ Last.password # <<>>
     /\ Carries(Persisted(Last.pre), Last.email))
    => /\ Last.outcome = "ok"
       /\ Last.post.user # <<>>
       /\ Last.post.user[1].email = Last.email
       /\ \E i \in 1..Len(Persisted(Last.pre)) :
              Persisted(Last.pre)[i] = Last.post.user[1]
       /\ Last.post.cur = <<StringifyUser(Last.post.user[1])>>

\* C6: after a signOut that overlapped no call and had no store failure,
\* the session user is absent, the currentUser slot is empty and the users
\* list is what it was.
C6_SignOutClears ==
    (Completed /\ Last.op = "signOut" /\ Alone(Last))
    => /\ Last.post.user = <<>>
       /\ Last.post.cur = <<>>
       /\ Last.post.users = Last.pre.users

\* C6's case: a signOut of an active, persisted session
C6_Witness ==
    /\ Completed /\ Last.op = "signOut" /\ Alone(Last)
    /\ Last.pre.user # <<>> /\ Last.pre.cur # <<>>
    /\ Len(Persisted(Last.pre)) >= 1

\* C7: signOut never raises, and the session user is absent once it has
\* completed, also when the removal of currentUser failed.
C7_SignOutAlwaysClears ==
    (Completed /\ Last.op = "signOut" /\ Last.solo)
    => /\ Last.outcome = "ok"
       /\ Last.post.user = <<>>

\* C8: an updateUser by the signed-in user U, overlapping no call and with
\* no store failure, sets the session user and the currentUser slot to U
\* merged with the partial, replaces U's record in the users list (the one
\* with U's identifier) by the merged record, and leaves the other users'
\* records, the length and the order of the list as they were: no record
\* but U's one changes.
C8_UpdateUserFrame ==
    (/\ Completed
     /\ Last.op = "updateUser" /\ Alone(Last)
     /\ Last.pre.user # <<>>)
    => LET U == Last.pre.user[1]
           p == Last.partial[1]
           merged == [k \in DOMAIN U \cup DOMAIN p |->
                         IF k \in DOMAIN p THEN p[k] ELSE U[k]]
           before == Persisted(Last.pre)
           after == Persisted(Last.post)
       IN  /\ Last.outcome = "ok"
           /\ Last.post.user = <<merged>>
           /\ Last.post.cur = <<StringifyUser(merged)>>
           /\ Len(after) = Len(before)
           /\ \A i \in 1..Len(before) :
                  /\ before[i].id = U.id => after[i] = merged
                  /\ before[i].id # U.id => after[i] = before[i]
           /\ Cardinality({i \in 1..Len(before) : after[i] # before[i]}) <= 1

\* C9: an updateUser called while no session is active fails with 'No user
\* logged in' and writes nothing: the currentUser slot and the users list
\* are what they were.
C9_UpdateUserNeedsSession ==
    (Completed /\ Last.op = "updateUser" /\ Last.pre.user = <<>>)
    => /\ Last.outcome = ErrNoUser
       /\ Last.writes = 0
       /\ Last.post.cur = Last.pre.cur
       /\ Last.post.users = Last.pre.users

\* C9's case: an updateUser refused after a sign-out, with records in the list
C9_Witness ==
    /\ Completed /\ Last.op = "updateUser" /\ Last.pre.user = <<>>
    /\ Len(Persisted(Last.pre)) >= 1
    /\ Last.outcome = ErrNoUser

SignUpArgsRejected(h) ==
    \/ Trim(h.name) = <<>>
    \/ Trim(h.email) = <<>>
    \/ h.password = <<>>
    \/ Len(h.password) < MinPasswordLength
    \/ ~Includes(h.email, "@")
    \/ ~Includes(h.email, ".")

\* C10: a signUp whose arguments violate a precondition is rejected before
\* any store access: it reads and writes nothing, leaves the users list,
\* the currentUser slot and the session user as they were, and raises the
\* validation failure.
C10_SignUpRejectsEarly ==
    (Completed /\ Last.op = "signUp" /\ SignUpArgsRejected(Last))
    => /\ Last.outcome \in {ErrAllFields, ErrPasswordLong, ErrEmailAddress}
       /\ Last.reads = 0 /\ Last.writes = 0
       /\ Last.post.user = Last.pre.user
       /\ Last.post.cur = Last.pre.cur
       /\ Last.post.users = Last.pre.users

\* C10's case: an email without '.' refused while a session was active
C10_Witness ==
    /\ Completed /\ Last.op = "signUp"
    /\ ~Includes(Last.email, ".") /\ Includes(Last.email, "@")
    /\ Last.pre.user # <<>> /\ Len(Persisted(Last.pre)) >= 1
    /\ Last.outcome = ErrEmailAddress

\* a signUp or a signIn that overlapped no other call
SoloEntry(h) == h.op \in {"signUp", "signIn"} /\ h.solo

ValidationErrors ==
    {ErrAllFields, ErrPasswordLong, ErrEmailAddress, ErrEmailPassword}

\* C11: once a signUp or a signIn that overlapped no call has completed, the
\* error state is absent exactly when the call succeeded; when it failed
\* (validation, conflict, unknown email or a rejected store access) the
\* error state holds the message of the failure the call raised, the store's
\* message exactly when a store access was rejected.
C11_ErrorTracksOutcome ==
    (Completed /\ SoloEntry(Last))
    => /\ Last.post.error = <<>> <=> Last.outcome = "ok"
       /\ Last.outcome # "ok" => Last.post.error = <<Last.outcome>>
       /\ Last.outcome \in
              {"ok", ErrExists, ErrInvalidLogin, ErrStore} \cup ValidationErrors
       /\ Last.faulted <=> Last.outcome = ErrStore
       /\ Last.reads = 0 /\ Last.outcome # "ok"
              => Last.outcome \in ValidationErrors

\* C11's case: a signUp that succeeded right after a call that failed and
\* left its message in the error state
C11_Witness ==
    /\ Len(hist) = 2
    /\ SoloEntry(hist[1]) /\ SoloEntry(hist[2])
    /\ hist[2].outcome = ErrInvalidLogin /\ hist[2].post.error # <<>>
    /\ hist[1].op = "signUp" /\ hist[1].outcome = "ok"
    /\ hist[1].post.error = <<>>

\* C12: while a signUp or a signIn that overlaps no call is in flight (in
\* the delay and at each store access) loading is true, and once it has
\* completed (success, failure or rejection by validation) loading is false.
C12_LoadingSpansCall ==
    /\ \A c \in Slots : SoloEntry(calls[c]) => loading
    /\ (Completed /\ SoloEntry(Last) /\ NoneInFlight) => ~loading
    /\ (Completed /\ SoloEntry(Last)) => ~Last.post.loading

\* C12's case: a signIn about to write currentUser with loading true, after
\* a signUp that validation rejected and that left loading false
C12_Witness ==
    /\ \E c \in Slots : /\ SoloEntry(calls[c]) /\ calls[c].op = "signIn"
                         /\ calls[c].pc = "curWrite" /\ loading
    /\ Completed /\ SoloEntry(Last) /\ Last.op = "signUp"
    /\ Last.outcome = ErrAllFields /\ ~Last.post.loading

\* an updateUser of an active session that overlapped no other call
SoloUpdate(h) == h.op = "updateUser" /\ h.solo /\ h.pre.user # <<>>

\* C15: an updateUser of an active session whose write of currentUser
\* succeeded and whose read of the users list then failed completes without
\* raising, with the session user the merged record and the users list as
\* it was.
C15_ListReadFailureSkipped ==
    (/\ Completed /\ SoloUpdate(Last)
     /\ Last.faulted /\ Last.writes = 1 /\ Last.reads = 1)
    => /\ Last.outcome = "ok"
       /\ Last.post.user = <<Merge(Last.pre.user[1], Last.partial[1])>>
       /\ Last.post.users = Last.pre.users

\* C16: updateUser changes the session user only after the write of
\* currentUser has returned: until then the session user is what it was, and
\* when that write fails the store's message is in the error state and is
\* raised, and the session user, the currentUser slot and the users list
\* are what they were before the call.
C16_UpdateFailsClean ==
    /\ \A c \in Slots :
          (calls[c].op = "updateUser" /\ calls[c].solo /\ calls[c].pc = "updCur")
          => /\ user = calls[c].pre.user
             /\ store.currentUser = calls[c].pre.cur
    /\ (/\ Completed /\ SoloUpdate(Last)
        /\ Last.faulted /\ Last.reads = 0)
       => /\ Last.writes = 1
          /\ Last.outcome = ErrStore
          /\ Last.post.error = <<ErrStore>>
          /\ Last.post.user = Last.pre.user
          /\ Last.post.cur = Last.pre.cur
          /\ Last.post.users = Last.pre.users

\* C16's case: a change of name whose write of currentUser was rejected
C16_Witness ==
    /\ Completed /\ SoloUpdate(Last)
    /\ Last.faulted /\ Last.reads = 0
    /\ Last.partial[1] = [name |-> NameX]
    /\ Last.pre.user[1].name # NameX
    /\ Last.pre.cur # <<>> /\ Len(Persisted(Last.pre)) >= 1
    /\ Last.outcome = ErrStore

\* C17: in every state with no call in flight the session user is absent
\* exactly when the currentUser slot is empty, and otherwise the slot holds
\* the session user's record.
C17_SlotMirrorsSession ==
    NoneInFlight
    => /\ user = <<>> <=> store.currentUser = <<>>
       /\ user # <<>> => store.currentUser = <<StringifyUser(user[1])>>

\* C20: a signUp that raises leaves the users list as it was before the
\* call, and a signUp repeated with the same arguments after one that raised
\* is not refused as a duplicate.
C20_SignUpAllOrNothing ==
    /\ (Completed /\ Last.op = "signUp" /\ Last.solo /\ Last.outcome # "ok")
       => Last.post.users = Last.pre.users
    /\ (/\ Len(hist) = 2
        /\ hist[1].op = "signUp" /\ hist[2].op = "signUp"
        /\ hist[1].solo /\ hist[2].solo
        /\ hist[2].outcome \notin {"ok", ErrExists}
        /\ hist[1].name = hist[2].name /\ hist[1].email = hist[2].email
        /\ hist[1].password = hist[2].password
        /\ hist[1].pre.users = hist[2].post.users)
       => hist[1].outcome # ErrExists

\* C18: no step shrinks the persisted users list or moves or removes a
\* record of it: every position of the list keeps its identifier, whatever
\* calls overlap.
C18_ListAppendOnly ==
    [][LET old == UsersOf(store.users)
           new == UsersOf(store'.users)
       IN  /\ Len(new) >= Len(old)
           /\ \A i \in 1..Len(old) : new[i].id = old[i].id]_vars

\* C13: a restore that overlapped no call completes without raising and
\* with loading false; the session user is then the record the text of the
\* currentUser slot decodes to (the record whose text it is) when the read
\* returned a text that parses, and absent when the slot was empty, the read
\* was rejected or the text did not parse.
C13_RestoreDecodesSlot ==
    (Completed /\ Last.op = "restore" /\ Last.solo)
    => /\ Last.outcome = "ok"
       /\ ~Last.post.loading
       /\ Last.post.cur = Last.pre.cur
       /\ IF /\ ~Last.faulted /\ Last.pre.cur # <<>>
             /\ \A i \in 1..Len(Last.pre.cur[1]) :
                    DOMAIN Last.pre.cur[1][i] = {"k", "v"}
          THEN /\ Last.post.user # <<>>
               /\ StringifyUser(Last.post.user[1]) = Last.pre.cur[1]
               /\ \A i \in 1..Len(Last.pre.cur[1]) :
                      Last.post.user[1][Last.pre.cur[1][i].k]
                          = Last.pre.cur[1][i].v
          ELSE Last.post.user = <<>>

\* C13's case: the session of an earlier run restored from the slot
C13_Witness ==
    /\ Completed /\ Last.op = "restore" /\ Last.solo /\ ~Last.faulted
    /\ Last.pre.cur = <<StringifyUser(Earlier)>>
    /\ Last.post.user = <<Earlier>>
    /\ user = <<Earlier>> /\ ~loading

\* a restore over a text that does not parse, completed with no session
C13_TornWitness ==
    /\ Completed /\ Last.op = "restore" /\ Last.solo /\ ~Last.faulted
    /\ Last.pre.cur = <<Cut(StringifyUser(Earlier))>>
    /\ user = <<>> /\ ~loading

\* what C14 asks of a form: the four fields non-empty, the password equal
\* to its confirmation and of at least 8 characters, the terms agreed to
FormOk(f) ==
    /\ f.fullName # <<>> /\ f.email # <<>>
    /\ f.password # <<>> /\ f.confirmPassword # <<>>
    /\ f.password = f.confirmPassword
    /\ Len(f.password) >= 8
    /\ f.agreeToTerms

\* C14: handleRegister calls signUp only for a form with all four fields
\* non-empty, the password equal to its confirmation and at least 8
\* characters long, and the terms agreed to, and then with the trimmed name,
\* the trimmed email and the password; for any other form signUp is not
\* called and the store is neither read nor written.
C14_RegisterScreenGuards ==
    /\ \A c \in Slots :
          calls[c].form # <<>>
          => /\ calls[c].op = "signUp"
             /\ FormOk(calls[c].form[1])
    /\ \A n \in 1..Len(hist) :
          hist[n].form # <<>>
          => LET f == hist[n].form[1]
             IN  IF FormOk(f)
                 THEN /\ hist[n].op = "signUp"
                      /\ hist[n].name = Trim(f.fullName)
                      /\ hist[n].email = Trim(f.email)
                      /\ hist[n].password = f.password
                 ELSE /\ hist[n].op = "handleRegister"
                      /\ hist[n].reads = 0 /\ hist[n].writes = 0
                      /\ hist[n].post.user = hist[n].pre.user
                      /\ hist[n].post.cur = hist[n].pre.cur
                      /\ hist[n].post.users = hist[n].pre.users

\* C14's case: a complete form refused for the missing agreement alone,
\* then accepted with the agreement given, its signUp succeeding
C14_Witness ==
    /\ Len(hist) = 2
    /\ hist[2].op = "handleRegister" /\ hist[2].outcome = AlertTerms
    /\ hist[1].op = "signUp" /\ hist[1].outcome = "ok"
    /\ hist[1].form = <<[hist[2].form[1] EXCEPT !.agreeToTerms = TRUE]>>
    /\ hist[1].reads = 1 /\ hist[1].writes = 2

\* some call can be invoked
Invoke ==
    \E c \in Slots :
       \/ \E i \in SignUpInputs : SignUp(c, i[1], i[2], i[3])
       \/ \E i \in SignInInputs : SignIn(c, i[1], i[2])
       \/ SignOut(c)
       \/ \E p \in Partials : UpdateUser(c, p)

\* C19: every call that was invoked eventually completes; in every state
\* in which no invoked call is still in flight loading is false; and after
\* a call that failed, as after any other, a further call can be invoked
\* (as long as the bound on calls allows) and completes in its turn.
C19_CallsComplete ==
    /\ \A c \in Slots : InFlight(c) ~> ~InFlight(c)
    /\ [](NoneInFlight => ~loading)
    /\ []((NoneInFlight /\ ncalls < MaxCalls) => ENABLED Invoke)

\* C19's case: two calls in flight together have both completed, the first
\* of them with a failure, loading is false, and a call invoked after the
\* failure has succeeded
C19_Witness ==
    /\ NoneInFlight /\ ~loading
    /\ Len(hist) = 2
    /\ ~hist[2].solo /\ hist[2].outcome # "ok"
    /\ hist[1].outcome = "ok" /\ hist[1].op = "signUp"
    /\ ncalls = MaxCalls

\* the operations that raise loading on entry and lower it on completion
RaisesLoading(call) == call.op \in {"restore", "signUp", "signIn", "signOut"}

\* C21: in every state, calls overlapping or not, loading is true whenever
\* a restore, a signUp, a signIn or a signOut is in flight.
C21_LoadingWhileAnyInFlight ==
    (\E c \in Slots : RaisesLoading(calls[c])) => loading

\* what signIn(email, password) does over the list us when no store access
\* fails: refused by its validation, or the record mockApi.login finds
SignInFinds(us, email, password) ==
    IF SignInValidate(email, password) # <<>>
    THEN <<>>
    ELSE FindEmail(us, NormalizeEmail(email))

\* C22: in every state with no call in flight, for every record R of the
\* persisted users list and every non-empty password, a signIn with R's
\* email and no store failure succeeds and makes a record with R's email
\* the session user.
C22_EveryRecordSignsIn ==
    NoneInFlight
    => LET us == UsersOf(store.users)
       IN  \A i \in 1..Len(us) : \A p \in {PwShort, PwOk} :
              LET found == SignInFinds(us, us[i].email, p)
              IN  /\ found # <<>>
                  /\ found[1].email = us[i].email

====
